---- MODULE Spec2Model ----
(***************************************************************************)
(* A model of ccount.core.CorrelatedModel (src/src/ccount/core.py): the    *)
(* constructor with its input check and its reordering of the individuals  *)
(* by group id, the Parameter Engine (compute_P, update_params), the        *)
(* Optimization Driver (optimize_params) and the Group Index Resolver       *)
(* (compute_new_P).                                                         *)
(*                                                                         *)
(* Python's None is the empty sequence << >> and a value v that may be     *)
(* None is <<v>>.  A numpy float is a record [fin, num, den, rad]: the     *)
(* real num / (den * sqrt(rad)) when fin (den > 0, rad > 0), a non-finite  *)
(* value (nan, inf) otherwise; rad is 1 but for values divided by a        *)
(* standard deviation.  Array indices are the code's 0-based indices; TLA+ *)
(* sequences are 1-based, so the element at index i of an array A is       *)
(* A[i + 1].                                                               *)
(***************************************************************************)
EXTENDS Integers, Sequences, FiniteSets, TLC

VARIABLES
    self,       \* the CorrelatedModel instance: its fields as a record
    status,     \* "new", "built" (construction returned) or "raised"
    exc,        \* the exception the last call ended with, "" when none
    args,       \* the arguments of the call being modelled
    pc,         \* optimize_params: the position in its loop body
    loc,        \* optimize_params: its local variables
    LOG,        \* optimize_params: the sub-minimizations invoked and the LOG.info lines
    ret,        \* the value the last call returned, None when it raised or has not run
    caller_d    \* the caller's d array, the object passed to the constructor

vars == <<self, status, exc, args, pc, loc, LOG, ret, caller_d>>

(***************************************************************************)
(* Floats.                                                                 *)
(***************************************************************************)
None == << >>

Some(v) == <<v>>

Fl(x) == [fin |-> TRUE, num |-> x, den |-> 1, rad |-> 1]

NaN == [fin |-> FALSE, num |-> 0, den |-> 1, rad |-> 1]

isfinite(x) == x.fin

Abs(x) == IF x < 0 THEN 0 - x ELSE x

RECURSIVE GCD(_, _)
GCD(x, y) == IF y = 0 THEN x ELSE GCD(y, x % y)

\* the same real in lowest terms, the square factors of rad moved into den
Reduced(x) ==
    IF ~x.fin THEN NaN
    ELSE IF x.num = 0 THEN Fl(0)
    ELSE LET q == CHOOSE q \in 1..x.rad :
                    /\ x.rad % (q * q) = 0
                    /\ \A p \in (q + 1)..x.rad : x.rad % (p * p) # 0
             den == x.den * q
             c == GCD(Abs(x.num), den)
         IN  [fin |-> TRUE, num |-> x.num \div c, den |-> den \div c,
              rad |-> x.rad \div (q * q)]

\* x + y, for operands under the same radical (a zero operand has none)
FAdd(x, y) ==
    IF ~(x.fin /\ y.fin) THEN NaN
    ELSE IF x.num = 0 THEN y
    ELSE IF y.num = 0 THEN x
    ELSE IF x.rad = y.rad
         THEN Reduced([fin |-> TRUE, num |-> x.num * y.den + y.num * x.den,
                       den |-> x.den * y.den, rad |-> x.rad])
         ELSE CHOOSE z \in {} : TRUE

FNeg(x) == [x EXCEPT !.num = 0 - x.num]

FSub(x, y) == FAdd(x, FNeg(y))

FMul(x, y) ==
    IF x.fin /\ y.fin
    THEN Reduced([fin |-> TRUE, num |-> x.num * y.num, den |-> x.den * y.den,
                  rad |-> x.rad * y.rad])
    ELSE NaN

\* x / y as numpy divides: a division by zero gives inf or nan, it does not raise
FDiv(x, y) ==
    IF ~(x.fin /\ y.fin) \/ y.num = 0 THEN NaN
    ELSE LET sgn == IF y.num < 0 THEN 0 - 1 ELSE 1
         IN  Reduced([fin |-> TRUE, num |-> sgn * x.num * y.den * y.rad,
                      den |-> sgn * x.den * y.num, rad |-> x.rad * y.rad])

\* sqrt(v) of a rational v >= 0, as v / sqrt(v)
FSqrt(v) ==
    IF ~v.fin THEN NaN
    ELSE Reduced([fin |-> TRUE, num |-> v.num, den |-> 1, rad |-> v.num * v.den])

\* x <= y for rationals; a comparison with nan is False
FLeq(x, y) == x.fin /\ y.fin /\ x.num * y.den <= y.num * x.den

\* the same float: both non-finite, or the same real
FSame(x, y) ==
    IF x.fin /\ y.fin
    THEN /\ (x.num > 0) = (y.num > 0)
         /\ (x.num < 0) = (y.num < 0)
         /\ x.num * x.num * y.den * y.den * y.rad = y.num * y.num * x.den * x.den * x.rad
    ELSE x.fin = y.fin

(***************************************************************************)
(* Arrays: a vector is a sequence, a matrix a sequence of rows.            *)
(***************************************************************************)
RECURSIVE SumSeq(_)
SumSeq(s) == IF s = << >> THEN 0 ELSE Head(s) + SumSeq(Tail(s))

RECURSIVE FSum(_)
FSum(s) == IF s = << >> THEN Fl(0) ELSE FAdd(Head(s), FSum(Tail(s)))

shape(A) == <<Len(A), IF Len(A) = 0 THEN 0 ELSE Len(A[1])>>

ones(r, c) == [i \in 1..r |-> [j \in 1..c |-> Fl(1)]]

zeros(r, c) == [i \in 1..r |-> [j \in 1..c |-> Fl(0)]]

arange(r) == [i \in 1..r |-> i - 1]

\* A[idx] for an index array idx: the rows of A at the indices idx, in that order
take(A, idx) == [i \in 1..Len(idx) |-> A[idx[i] + 1]]

\* np.concatenate((A, B), axis=1) of two matrices with as many rows
hconcat(A, B) == [i \in 1..Len(A) |-> A[i] \o B[i]]

column(A, c) == [i \in 1..Len(A) |-> A[i][c]]

allfinite(A) == \A i \in 1..Len(A) : \A j \in 1..Len(A[i]) : isfinite(A[i][j])

(***************************************************************************)
(* numpy's sorting and set routines.                                       *)
(***************************************************************************)
Permutations0(r) ==
    {p \in [1..r -> 0..(r - 1)] : \A i, j \in 1..r : p[i] = p[j] => i = j}

\* an argsort that leaves the array as it is
argsort_identity(a) == {arange(Len(a))}

\* np.argsort(a) with the default kind='quicksort', which numpy documents as not
\* stable: every index array that puts a in non-decreasing order is a possible
\* result, and the ties come in any order
argsort(a) ==
    {p \in Permutations0(Len(a)) :
        \A i \in 1..(Len(a) - 1) : a[p[i] + 1] <= a[p[i + 1] + 1]}

RECURSIVE SortedSeq(_)
SortedSeq(S) ==
    IF S = {} THEN << >>
    ELSE LET least == CHOOSE x \in S : \A y \in S : x <= y
         IN  <<least>> \o SortedSeq(S \ {least})

Range(a) == {a[i] : i \in 1..Len(a)}

\* np.unique(a, return_counts=True): the sorted distinct values and their counts
unique_values(a) == SortedSeq(Range(a))

unique_counts(a) ==
    LET u == unique_values(a)
    IN  [q \in 1..Len(u) |-> Cardinality({i \in 1..Len(a) : a[i] = u[q]})]

(***************************************************************************)
(* Canonicalization of the covariates.  A raw X[k][j] is None or           *)
(* Some(matrix).                                                           *)
(***************************************************************************)
\* the first error intercept_X ends with, "" when it returns
intercept_X_exc(X, m, l, n) ==
    IF \E i \in 1..l : i > Len(X) \/ \E j \in 1..n : j > Len(X[i])
    THEN "IndexError"
    ELSE IF \E i \in 1..l : \E j \in 1..n : X[i][j] # None /\ Len(X[i][j][1]) # m
         THEN "ValueError"
         ELSE ""

intercept_X(X, m, l, n) ==
    [i \in 1..Len(X) |-> [j \in 1..Len(X[i]) |->
        IF i <= l /\ j <= n
        THEN IF X[i][j] = None THEN Some(ones(m, 1))
             ELSE Some(hconcat(ones(m, 1), X[i][j][1]))
        ELSE X[i][j]]]

mean0(A) ==
    [c \in 1..shape(A)[2] |-> FDiv(FSum(column(A, c)), Fl(Len(A)))]

std0(A) ==
    [c \in 1..shape(A)[2] |->
        LET mu == mean0(A)[c]
            sq == [i \in 1..Len(A) |-> FMul(FSub(A[i][c], mu), FSub(A[i][c], mu))]
        IN  FSqrt(FDiv(FSum(sq), Fl(Len(A))))]

\* X_list[i][j][:, ci:] = (X_list[i][j][:, ci:] - X_mean[i][j][ci:]) / X_std[i][j][ci:]
normalize_X(X, X_mean, X_std, ci, l, n) ==
    [i \in 1..Len(X) |-> [j \in 1..Len(X[i]) |->
        IF i <= l /\ j <= n
        THEN [r \in 1..Len(X[i][j]) |-> [c \in 1..Len(X[i][j][r]) |->
                IF c > ci
                THEN FDiv(FSub(X[i][j][r][c], X_mean[i][j][c]), X_std[i][j][c])
                ELSE X[i][j][r][c]]]
        ELSE X[i][j]]]

\* a sort_X that leaves the rows where they are
sort_X_unsorted(X, sort_id, l, n) == X

\* sorted_X[k][j] = sorted_X[k][j][sort_id] on a deep copy of X
sort_X(X, sort_id, l, n) ==
    [k \in 1..Len(X) |-> [j \in 1..Len(X[k]) |->
        IF k <= l /\ j <= n THEN take(X[k][j], sort_id) ELSE X[k][j]]]

\* check(), the types: the declared m, n, l are ints and the arrays float arrays
check_types(s) == s.d.dtype = "int"

\* check_values without its last assertion, on the weights
check_values_no_weights(s) ==
    /\ s.m > 0
    /\ s.n > 0
    /\ s.l > 0
    /\ \A k \in 1..Len(s.d.val) : \A j \in 1..Len(s.d.val[k]) : s.d.val[k][j] > 0
    /\ \A k \in 1..Len(s.X) : \A j \in 1..Len(s.X[k]) : allfinite(s.X[k][j])
    /\ \A k \in 1..Len(s.offset) : allfinite(s.offset[k])

\* check(), the values
check_values(s) ==
    /\ s.m > 0
    /\ s.n > 0
    /\ s.l > 0
    /\ \A k \in 1..Len(s.d.val) : \A j \in 1..Len(s.d.val[k]) : s.d.val[k][j] > 0
    /\ \A k \in 1..Len(s.X) : \A j \in 1..Len(s.X[k]) : allfinite(s.X[k][j])
    /\ \A k \in 1..Len(s.offset) : allfinite(s.offset[k])
    /\ \A i \in 1..Len(s.W) : \A j \in 1..Len(s.W[i]) : FLeq(Fl(0), s.W[i][j])

\* check(), the sizes
check_sizes(s) ==
    /\ shape(s.Y) = <<s.m, s.n>>
    /\ Len(s.X) = s.l
    /\ \A k \in 1..s.l : Len(s.X[k]) = s.n
    /\ \A k \in 1..s.l : \A j \in 1..s.n :
          /\ k <= Len(s.d.val) /\ j <= Len(s.d.val[k])
          /\ shape(s.X[k][j]) = <<s.m, s.d.val[k][j]>>
    /\ Len(s.g) = s.l
    /\ Len(s.group_id) = s.m
    /\ Len(s.offset) = s.l
    /\ \A k \in 1..Len(s.offset) : shape(s.offset[k]) = <<s.m, 1>>
    /\ shape(s.W) = <<s.m, s.n>>

\* check(): whether every assertion on the fields s passes
check(s) == check_types(s) /\ check_values(s) /\ check_sizes(s)

(***************************************************************************)
(* CorrelatedModel.__init__.  a is the record of its arguments: m, n, l,   *)
(* d = [dtype, val], Y, X, g, group_id, offset, weights, add_intercepts,   *)
(* normalize_X (spline_specs is None).                                     *)
(***************************************************************************)
any_absent(X) == \E k \in 1..Len(X) : \E j \in 1..Len(X[k]) : X[k][j] = None

unwrap(X) == [k \in 1..Len(X) |-> [j \in 1..Len(X[k]) |-> X[k][j][1]]]

d_plus_one(d) ==
    [d EXCEPT !.val = [k \in 1..Len(d.val) |-> [j \in 1..Len(d.val[k]) |-> d.val[k][j] + 1]]]

\* __init__ up to and including self.check(): the fields as they stand before
\* the sort, exc the exception raised on the way ("" when none), d_mutated
\* whether self.d += 1 ran
init_checked(a) ==
    LET group_id == IF a.group_id = None THEN arange(a.m) ELSE a.group_id[1]
        offset == IF a.offset = None THEN [k \in 1..a.l |-> ones(a.m, 1)]
                  ELSE [k \in 1..Len(a.offset[1]) |->
                           IF a.offset[1][k] = None THEN ones(a.m, 1)
                           ELSE a.offset[1][k][1]]
        W == IF a.weights = None THEN ones(a.m, a.n) ELSE a.weights[1]
        iexc == IF a.add_intercepts THEN intercept_X_exc(a.X, a.m, a.l, a.n) ELSE ""
        X1 == IF a.add_intercepts /\ iexc = "" THEN intercept_X(a.X, a.m, a.l, a.n) ELSE a.X
        d1 == IF a.add_intercepts /\ iexc = "" THEN d_plus_one(a.d) ELSE a.d
        ci == IF a.add_intercepts THEN 1 ELSE 0
        X2 == unwrap(X1)
        X_mean == [k \in 1..Len(X2) |-> [j \in 1..Len(X2[k]) |->
                     IF a.normalize_X THEN mean0(X2[k][j])
                     ELSE [c \in 1..shape(X2[k][j])[2] |-> Fl(0)]]]
        X_std == [k \in 1..Len(X2) |-> [j \in 1..Len(X2[k]) |->
                     IF a.normalize_X THEN std0(X2[k][j])
                     ELSE [c \in 1..shape(X2[k][j])[2] |-> Fl(1)]]]
        fields == [m |-> a.m, n |-> a.n, l |-> a.l, d |-> d1,
                   group_id |-> group_id, offset |-> offset, W |-> W, Y |-> a.Y,
                   X |-> normalize_X(X2, X_mean, X_std, ci, a.l, a.n),
                   X_mean |-> X_mean, X_std |-> X_std,
                   g |-> a.g, add_intercepts |-> a.add_intercepts, ci |-> ci]
    IN  IF any_absent(a.X) /\ ~a.add_intercepts
        THEN [exc |-> "RuntimeError", d |-> a.d, fields |-> None]
        ELSE IF iexc # ""
        THEN [exc |-> iexc, d |-> a.d, fields |-> None]
        ELSE IF any_absent(X1)
        THEN [exc |-> "AttributeError", d |-> d1, fields |-> None]
        ELSE IF ~check(fields)
        THEN [exc |-> "AssertionError", d |-> d1, fields |-> None]
        ELSE [exc |-> "", d |-> d1, fields |-> Some(fields)]

identity(n) == [i \in 1..n |-> [j \in 1..n |-> IF i = j THEN Fl(1) ELSE Fl(0)]]

\* the rest of __init__: the individuals reordered by sort_id, the groups, and
\* the initial beta, U, D, P
init_grouped(s, sort_id) ==
    LET group_id == take(s.group_id, sort_id)
        num_groups == Len(unique_values(group_id))
    IN  [m |-> s.m, n |-> s.n, l |-> s.l, d |-> s.d,
         group_id |-> group_id,
         offset |-> [k \in 1..Len(s.offset) |->
                        IF k <= s.l THEN take(s.offset[k], sort_id) ELSE s.offset[k]],
         W |-> take(s.W, sort_id),
         Y |-> take(s.Y, sort_id),
         X |-> sort_X(s.X, sort_id, s.l, s.n),
         X_mean |-> s.X_mean, X_std |-> s.X_std,
         g |-> s.g, add_intercepts |-> s.add_intercepts, ci |-> s.ci,
         unique_group_id |-> unique_values(group_id),
         group_sizes |-> unique_counts(group_id),
         num_groups |-> num_groups,
         beta |-> [k \in 1..s.l |-> [j \in 1..s.n |->
                      [c \in 1..s.d.val[k][j] |-> Fl(0)]]],
         U |-> [k \in 1..s.l |-> zeros(num_groups, s.n)],
         D |-> [k \in 1..s.l |-> identity(s.n)],
         P |-> [k \in 1..s.l |-> zeros(s.m, s.n)]]

Unbuilt == [m |-> 0]

(***************************************************************************)
(* The Parameter Engine.                                                   *)
(***************************************************************************)
\* an inverse link function g[k], applied elementwise; numpy's 1/0 is inf
Link(name, x) ==
    CASE name = "identity" -> x
      [] name = "reciprocal" -> FDiv(Fl(1), x)

dot(row, b) == FSum([c \in 1..Len(row) |-> FMul(row[c], b[c])])

RECURSIVE repeat(_, _)
\* np.repeat(rows, sizes, axis=0): rows[q] repeated sizes[q] times
repeat(rows, sizes) ==
    IF rows = << >> THEN << >>
    ELSE [i \in 1..Head(sizes) |-> Head(rows)] \o repeat(Tail(rows), Tail(sizes))

\* compute_P(X, m, group_sizes, offset, beta, U) on the model s
compute_P(s, X, m, group_sizes, offset, beta, U) ==
    [k \in 1..s.l |->
        LET Urep == repeat(U[k], group_sizes)
        IN  [i \in 1..m |-> [j \in 1..s.n |->
                FMul(Link(s.g[k], FAdd(dot(X[k][j][i], beta[k][j]), Urep[i][j])),
                     offset[k][i][1])]]]

\* an update_params that computes P from the beta and U it found, before
\* putting the supplied ones in
update_params_stale_P(s, beta, U, D, P) ==
    [s EXCEPT !.beta = IF beta # None THEN beta[1] ELSE @,
              !.U = IF U # None THEN U[1] ELSE @,
              !.D = IF D # None THEN D[1] ELSE @,
              !.P = IF P # None THEN P[1]
                    ELSE compute_P(s, s.X, s.m, s.group_sizes, s.offset, s.beta, s.U)]

\* update_params(beta, U, D, P), each argument None or Some(value): the model after it
update_params(s, beta, U, D, P) ==
    LET s1 == [s EXCEPT !.beta = IF beta # None THEN beta[1] ELSE @,
                        !.U = IF U # None THEN U[1] ELSE @,
                        !.D = IF D # None THEN D[1] ELSE @]
    IN  [s1 EXCEPT !.P = IF P # None THEN P[1]
                         ELSE compute_P(s1, s1.X, s1.m, s1.group_sizes, s1.offset,
                                        s1.beta, s1.U)]

(***************************************************************************)
(* The Group Index Resolver.                                               *)
(***************************************************************************)
\* np.in1d(A, B), np.isin(A, B): for each element of A whether it is in B
in1d(A, B) == [i \in 1..Len(A) |-> A[i] \in Range(B)]

\* np.where(mask)[0]: the indices where mask holds, ascending
where(mask) == SortedSeq({i - 1 : i \in {i \in 1..Len(mask) : mask[i]}})

\* the indices of the present groups among themselves
group_indices_in_present(unique_group_id, present_groups) ==
    where(in1d(present_groups, unique_group_id))

\* group_indices = np.where(np.in1d(self.unique_group_id, present_groups))[0]
group_indices_of(unique_group_id, present_groups) ==
    where(in1d(unique_group_id, present_groups))

\* arr[mask] = vals: the i-th position where mask holds takes vals[i]
mask_assign(arr, mask, vals) ==
    [i \in 1..Len(arr) |->
        IF mask[i] THEN vals[Cardinality({h \in 1..i : mask[h]})] ELSE arr[i]]

\* a "reverse" permutation that is the sort permutation itself
reverse_same(sort_id) == sort_id

\* reverse_sort_id = np.argsort(sort_id): sort_id is a permutation, its keys
\* are distinct and the result is its inverse
reverse_of(sort_id) == CHOOSE p \in argsort(sort_id) : TRUE

\* compute_new_P(X, group_id, offset) for the sort permutation sort_id that
\* np.argsort returned: its local variables and the matrix it returns
compute_new_P(s, X, group_id, offset, sort_id) ==
    LET reverse_sort_id == reverse_of(sort_id)
        random_effect_id == take(group_id, sort_id)
        offsets == [k \in 1..Len(offset) |-> take(offset[k], sort_id)]
        sorted_X == sort_X(X, sort_id, s.l, s.n)
        present_groups == unique_values(random_effect_id)
        group_sizes == unique_counts(random_effect_id)
        group_indices == group_indices_of(s.unique_group_id, present_groups)
        existing_random_effects == in1d(present_groups, s.unique_group_id)
        Uz == [k \in 1..s.l |-> s.U[k] \o zeros(1, s.n)]
        indices_u == mask_assign([q \in 1..Len(present_groups) |-> s.num_groups],
                                 existing_random_effects, group_indices)
        U == [k \in 1..s.l |-> take(Uz[k], indices_u)]
        P == compute_P(s, sorted_X, Len(random_effect_id), group_sizes, offsets, s.beta, U)
    IN  [sort_id |-> sort_id, reverse_sort_id |-> reverse_sort_id,
         present_groups |-> present_groups, group_sizes |-> group_sizes,
         group_indices |-> group_indices, indices_u |-> indices_u,
         U |-> U,
         P |-> [k \in 1..s.l |-> take(P[k], reverse_sort_id)]]

(***************************************************************************)
(* The constructor's inputs: a well-formed data set of m individuals, and  *)
(* one defect at most put into it.                                         *)
(***************************************************************************)
MaxM == 3

MaxGid == 2

LDim == 1

NDim == 1

XPatterns == {"absent", "rows", "const"}

Defects ==
    {"none", "m_zero", "n_zero", "l_zero", "d_decr", "d_incr", "d_float",
     "X_row", "X_col", "Y_row", "Y_col", "gid_len", "X_nan", "offset_nan", "W_neg"}

BaseArgs(m, gid, xp, off, w, ai, nx) ==
    [m |-> m, n |-> NDim, l |-> LDim,
     d |-> [dtype |-> "int",
            val |-> [k \in 1..LDim |-> [j \in 1..NDim |-> IF xp = "absent" THEN 0 ELSE 1]]],
     Y |-> [i \in 1..m |-> [j \in 1..NDim |-> Fl(i)]],
     X |-> [k \in 1..LDim |-> [j \in 1..NDim |->
              IF xp = "absent" THEN None
              ELSE Some([i \in 1..m |-> <<IF xp = "rows" THEN Fl(i + k + j) ELSE Fl(1)>>])]],
     g |-> [k \in 1..LDim |-> "identity"],
     group_id |-> gid,
     offset |-> IF off THEN Some([k \in 1..LDim |-> Some([i \in 1..m |-> <<Fl(i)>>])])
                ELSE None,
     weights |-> IF w THEN Some([i \in 1..m |-> [j \in 1..NDim |-> Fl(i)]]) ELSE None,
     add_intercepts |-> ai, normalize_X |-> nx]

Applicable(a, defect) ==
    CASE defect \in {"X_row", "X_col", "X_nan"} -> a.X[1][1] # None
      [] defect = "gid_len" -> a.group_id # None
      [] defect = "offset_nan" -> a.offset # None
      [] defect = "W_neg" -> a.weights # None
      [] OTHER -> TRUE

WithDefect(a, defect) ==
    CASE defect = "m_zero" -> [a EXCEPT !.m = 0]
      [] defect = "n_zero" -> [a EXCEPT !.n = 0]
      [] defect = "l_zero" -> [a EXCEPT !.l = 0]
      [] defect = "d_decr" -> [a EXCEPT !.d.val[1][1] = @ - 1]
      [] defect = "d_incr" -> [a EXCEPT !.d.val[1][1] = @ + 1]
      [] defect = "d_float" -> [a EXCEPT !.d.dtype = "float"]
      [] defect = "X_row" -> [a EXCEPT !.X[1][1] = Some(Append(@[1], @[1][1]))]
      [] defect = "X_col" ->
            [a EXCEPT !.X[1][1] = Some([i \in 1..Len(@[1]) |-> Append(@[1][i], Fl(i * i))])]
      [] defect = "Y_row" -> [a EXCEPT !.Y = Append(@, @[1])]
      [] defect = "Y_col" -> [a EXCEPT !.Y = [i \in 1..Len(@) |-> Append(@[i], Fl(0))]]
      [] defect = "gid_len" -> [a EXCEPT !.group_id = Some(Append(@[1], 0))]
      [] defect = "X_nan" -> [a EXCEPT !.X[1][1] = Some([@[1] EXCEPT ![1][1] = NaN])]
      [] defect = "offset_nan" ->
            [a EXCEPT !.offset = Some([@[1] EXCEPT ![1] = Some([@[1] EXCEPT ![1][1] = NaN])])]
      [] defect = "W_neg" -> [a EXCEPT !.weights = Some([@[1] EXCEPT ![1][1] = Fl(0 - 1)])]
      [] OTHER -> a

GroupIdArgs(m) == {None} \cup {Some(s) : s \in [1..m -> 0..MaxGid]}

(***************************************************************************)
(* The constructor as the one operation of Spec.                           *)
(***************************************************************************)
NoLocals == [sort_id |-> << >>]

Init ==
    \E m \in 1..MaxM : \E gid \in GroupIdArgs(m) : \E xp \in XPatterns :
    \E off, w, ai, nx \in BOOLEAN : \E defect \in Defects :
        /\ Applicable(BaseArgs(m, gid, xp, off, w, ai, nx), defect)
        /\ args = WithDefect(BaseArgs(m, gid, xp, off, w, ai, nx), defect)
        /\ caller_d = args.d
        /\ self = Unbuilt
        /\ status = "new"
        /\ exc = ""
        /\ pc = "init"
        /\ loc = NoLocals
        /\ LOG = << >>
        /\ ret = None

\* model = CorrelatedModel(**args)
Construct ==
    /\ status = "new"
    /\ pc = "init"
    /\ LET checked == init_checked(args)
       IN  /\ caller_d' = checked.d
           /\ IF checked.exc # ""
              THEN /\ status' = "raised"
                   /\ exc' = checked.exc
                   /\ UNCHANGED <<self, loc>>
              ELSE \E sort_id \in argsort(checked.fields[1].group_id) :
                      /\ self' = init_grouped(checked.fields[1], sort_id)
                      /\ loc' = [sort_id |-> sort_id]
                      /\ status' = "built"
                      /\ exc' = ""
    /\ UNCHANGED <<args, pc, LOG, ret>>

Next == Construct

Spec == Init /\ [][Next]_vars

(***************************************************************************)
(* Properties of the constructor (Spec).                                   *)
(***************************************************************************)
\* the index of the first row of the q-th group's block (q from 1)
BlockStart(sizes, q) == SumSeq(SubSeq(sizes, 1, q - 1))

\* C7: after a successful construction the stored group_id is non-decreasing,
\* unique_group_id is strictly increasing, num_groups is its length,
\* group_sizes sums to m, and the q-th group occupies exactly the q-th
\* contiguous block of group_sizes[q] rows.
C7_GroupedLayout ==
    status = "built" =>
        /\ \A i \in 1..(self.m - 1) : self.group_id[i] <= self.group_id[i + 1]
        /\ \A q \in 1..(Len(self.unique_group_id) - 1) :
              self.unique_group_id[q] < self.unique_group_id[q + 1]
        /\ self.num_groups = Len(self.unique_group_id)
        /\ Len(self.group_sizes) = self.num_groups
        /\ Len(self.group_id) = self.m
        /\ SumSeq(self.group_sizes) = self.m
        /\ \A q \in 1..self.num_groups :
              /\ self.group_sizes[q] > 0
              /\ \A i \in 1..self.m :
                    (self.group_id[i] = self.unique_group_id[q]) <=>
                    (/\ BlockStart(self.group_sizes, q) < i
                     /\ i <= BlockStart(self.group_sizes, q) + self.group_sizes[q])

\* a model built from an unsorted group_id whose ids are not contiguous and
\* one of which comes back after another id
C7_Witness ==
    /\ status = "built"
    /\ args.group_id = Some(<<2, 0, 2>>)
    /\ self.group_id = <<0, 2, 2>>
    /\ self.group_sizes = <<1, 2>>

\* C8 as claimed: the reordering is stable, two individuals of one group keep
\* their original relative order (sort_id[i] is the original index of the
\* individual stored at row i).
C8_StableSort ==
    status = "built" =>
        \A i, j \in 1..self.m :
            (i < j /\ self.group_id[i] = self.group_id[j])
                => loc.sort_id[i] < loc.sort_id[j]

RawX(a) == {<<k, j>> \in (1..Len(a.X)) \X (1..NDim) : j <= Len(a.X[k]) /\ a.X[k][j] # None}

AbsentNoIntercept(a) == any_absent(a.X) /\ ~a.add_intercepts

ShapeDisagrees(a) ==
    \/ shape(a.Y) # <<a.m, a.n>>
    \/ Len(a.X) # a.l
    \/ \E k \in 1..Len(a.X) : Len(a.X[k]) # a.n
    \/ \E kj \in RawX(a) : shape(a.X[kj[1]][kj[2]][1]) # <<a.m, a.d.val[kj[1]][kj[2]]>>
    \/ a.group_id # None /\ Len(a.group_id[1]) # a.m

DeclaredNonPositive(a) ==
    \/ a.m <= 0 \/ a.n <= 0 \/ a.l <= 0
    \/ \E k \in 1..Len(a.d.val) : \E j \in 1..Len(a.d.val[k]) : a.d.val[k][j] <= 0

AugmentedNonPositive(a) ==
    \/ a.m <= 0 \/ a.n <= 0 \/ a.l <= 0
    \/ \E k \in 1..Len(a.d.val) : \E j \in 1..Len(a.d.val[k]) :
          a.d.val[k][j] + (IF a.add_intercepts THEN 1 ELSE 0) <= 0

DNotInteger(a) == a.d.dtype # "int"

NonFiniteInput(a) ==
    \/ \E kj \in RawX(a) : ~allfinite(a.X[kj[1]][kj[2]][1])
    \/ /\ a.offset # None
       /\ \E k \in 1..Len(a.offset[1]) :
             a.offset[1][k] # None /\ ~allfinite(a.offset[1][k][1])

NegativeWeight(a) ==
    /\ a.weights # None
    /\ \E i \in 1..Len(a.weights[1]) : \E j \in 1..Len(a.weights[1][i]) :
          a.weights[1][i][j].fin /\ a.weights[1][i][j].num < 0

Aborted == status = "raised" /\ exc # "" /\ self = Unbuilt

\* C9 as claimed: construction aborts and yields no model when a covariate
\* matrix is absent without intercept augmentation, a shape disagrees with
\* the declared dimensions, m, n, l or an entry of the declared d is
\* non-positive, d is not of integer type, a covariate or an offset is not
\* finite, or a weight is negative.
C9_AbortsAsClaimed ==
    (/\ status # "new"
     /\ \/ AbsentNoIntercept(args) \/ ShapeDisagrees(args) \/ DeclaredNonPositive(args)
        \/ DNotInteger(args) \/ NonFiniteInput(args) \/ NegativeWeight(args))
    => Aborted

\* C9 amended: as C9, with the entries of d taken after intercept augmentation
\* has incremented them (a declared 0 for an absent covariate matrix is
\* accepted when intercept augmentation is requested).
C9_Aborts ==
    (/\ status # "new"
     /\ \/ AbsentNoIntercept(args) \/ ShapeDisagrees(args) \/ AugmentedNonPositive(args)
        \/ DNotInteger(args) \/ NonFiniteInput(args) \/ NegativeWeight(args))
    => Aborted

\* a construction that aborted on a negative weight alone
C9_Witness ==
    /\ Aborted
    /\ NegativeWeight(args)
    /\ ~(\/ AbsentNoIntercept(args) \/ ShapeDisagrees(args) \/ AugmentedNonPositive(args)
         \/ DNotInteger(args) \/ NonFiniteInput(args))
    /\ args.group_id = Some(<<1, 0>>)

\* the individual stored at row i is the original individual o (both from 1):
\* group id, Y row, covariate rows, weight row and offset values all come
\* from row o of the canonicalized inputs pre
SameIndividual(pre, i, o) ==
    /\ self.group_id[i] = pre.group_id[o]
    /\ self.Y[i] = pre.Y[o]
    /\ self.W[i] = pre.W[o]
    /\ \A k \in 1..self.l :
          /\ self.offset[k][i] = pre.offset[k][o]
          /\ \A j \in 1..self.n : self.X[k][j][i] = pre.X[k][j][o]

\* C14: construction applies one row permutation to group_id, Y, every
\* X[k][j], the weights and every offset[k]: the stored rows are the original
\* individuals, whole, each exactly once.
C14_OnePermutation ==
    status = "built" =>
        LET pre == init_checked(args).fields[1]
        IN  /\ Len(self.group_id) = self.m /\ Len(self.Y) = self.m /\ Len(self.W) = self.m
            /\ \A k \in 1..self.l :
                  /\ Len(self.offset[k]) = self.m
                  /\ \A j \in 1..self.n : Len(self.X[k][j]) = self.m
            /\ \E p \in Permutations0(self.m) :
                  \A i \in 1..self.m : SameIndividual(pre, i, p[i] + 1)

\* a model built from an unsorted group_id, with covariates, weights and
\* offsets that differ from one individual to the next
C14_Witness ==
    /\ status = "built"
    /\ args.m = MaxM
    /\ args.group_id # None
    /\ args.group_id[1][1] > args.group_id[1][2]
    /\ args.weights # None /\ args.offset # None
    /\ args.X[1][1] # None
    /\ self.X[1][1][1] # self.X[1][1][2]
    /\ self.Y # args.Y
    /\ self.W # args.weights[1]

\* C16 as claimed: construction leaves the caller's d array as it was passed,
\* so that a second construction from the same d object and covariates
\* succeeds as the first did.
C16_CallerDUntouched ==
    status = "built" =>
        /\ caller_d = args.d
        /\ init_checked([args EXCEPT !.d = caller_d]).exc = ""

(***************************************************************************)
(* SpecPred: compute_new_P on a fitted model.  The model is built from a   *)
(* well-formed data set (normalize_X=False, so that its covariates stay    *)
(* rationals) and holds the beta and U a fit left in it.                   *)
(***************************************************************************)
MaxVal == 1

Links == {"identity", "reciprocal"}

NonDecreasing(m) ==
    {s \in [1..m -> 0..MaxGid] : \A i \in 1..(m - 1) : s[i] <= s[i + 1]}

\* the model built from the arguments a, the individuals reordered by sort_id
Built(a, sort_id) == init_grouped(init_checked(a).fields[1], sort_id)

\* fitted effects: every coefficient b, and the random effect u * q for the q-th group
BetaArg(s, b) == [k \in 1..s.l |-> [j \in 1..s.n |-> [c \in 1..s.d.val[k][j] |-> Fl(b)]]]

UArg(s, u) == [k \in 1..s.l |-> [q \in 1..s.num_groups |-> [j \in 1..s.n |-> Fl(u * (q + k + j - 2))]]]

FitArgs(m, gid, xp, ai, off, link) ==
    [BaseArgs(m, gid, xp, off, FALSE, ai, FALSE) EXCEPT !.g = [k \in 1..LDim |-> link]]

\* new data of r individuals for the model s: covariates, offsets, group ids
NewX(s, r) == [k \in 1..s.l |-> [j \in 1..s.n |-> [i \in 1..r |-> [c \in 1..s.d.val[k][j] |-> Fl(i + c - 1)]]]]

NewOffset(s, r) == [k \in 1..s.l |-> [i \in 1..r |-> <<Fl(i)>>]]

InitPred ==
    \E m \in 1..MaxM : \E gid \in {None} \cup {Some(g) : g \in NonDecreasing(m)} :
    \E cov \in {<<"rows", FALSE>>, <<"absent", TRUE>>} : \E link \in Links :
    \E b, u \in 0..MaxVal :
        LET a == FitArgs(m, gid, cov[1], cov[2], FALSE, link)
        IN  /\ init_checked(a).exc = ""
            /\ \E sort_id \in argsort(init_checked(a).fields[1].group_id) :
                  self = update_params(Built(a, sort_id), Some(BetaArg(Built(a, sort_id), b)),
                                       Some(UArg(Built(a, sort_id), u)), None, None)
            /\ caller_d = init_checked(a).d
            /\ status = "built"
            /\ exc = ""
            /\ args = None
            /\ pc = "fitted"
            /\ loc = NoLocals
            /\ LOG = << >>
            /\ ret = None

\* P = model.compute_new_P(X, group_id, offset)
ComputeNewP ==
    /\ status = "built"
    /\ pc = "fitted"
    /\ \E r \in 1..MaxM : \E group_id \in [1..r -> 0..MaxGid] :
       \E sort_id \in argsort(group_id) :
          LET call == compute_new_P(self, NewX(self, r), group_id, NewOffset(self, r), sort_id)
          IN  /\ args' = [X |-> NewX(self, r), group_id |-> group_id,
                          offset |-> NewOffset(self, r)]
              /\ loc' = [call EXCEPT !.P = None]
              /\ ret' = Some(call.P)
    /\ pc' = "predicted"
    /\ exc' = ""
    /\ UNCHANGED <<self, status, LOG, caller_d>>

NextPred == ComputeNewP

SpecPred == InitPred /\ [][NextPred]_vars

\* the 0-based position of g in the array a
IndexOf(a, g) == (CHOOSE i \in 1..Len(a) : a[i] = g) - 1

\* C5: for every distinct group id g of the new data, the index used to gather
\* from U is the position of g in the fit-time unique_group_id when g was seen
\* at fit time, and num_groups, the appended zero row, when it was not.
C5_GatherIndices ==
    pc = "predicted" =>
        /\ Range(loc.present_groups) = Range(args.group_id)
        /\ Len(loc.indices_u) = Len(loc.present_groups)
        /\ \A q \in 1..Len(loc.present_groups) :
              LET g == loc.present_groups[q]
              IN  IF g \in Range(self.unique_group_id)
                  THEN /\ loc.indices_u[q] = IndexOf(self.unique_group_id, g)
                       /\ \A k \in 1..self.l : loc.U[k][q] = self.U[k][loc.indices_u[q] + 1]
                  ELSE /\ loc.indices_u[q] = self.num_groups
                       /\ \A k \in 1..self.l : loc.U[k][q] = [j \in 1..self.n |-> Fl(0)]

\* new data with two unseen groups around a seen one, the seen one not the
\* first of the fitted groups
C5_Witness ==
    /\ pc = "predicted"
    /\ self.unique_group_id = <<0, 1>>
    /\ args.group_id = <<2, 1, 2>>
    /\ loc.present_groups = <<1, 2>>
    /\ loc.indices_u = <<1, 2>>

\* the random effect of group g for parameter k: the fitted row, zero if unseen
EffectOf(s, k, g) ==
    IF g \in Range(s.unique_group_id)
    THEN s.U[k][IndexOf(s.unique_group_id, g) + 1]
    ELSE [j \in 1..s.n |-> Fl(0)]

\* C6: compute_new_P returns its rows in the caller's order: row i of the
\* result is computed from row i of the covariates and offsets and the random
\* effect of row i's own group, as a direct gather by group membership gives it.
C6_RowOrder ==
    pc = "predicted" =>
        \A k \in 1..self.l :
            /\ Len(ret[1][k]) = Len(args.group_id)
            /\ \A i \in 1..Len(args.group_id) : \A j \in 1..self.n :
                  ret[1][k][i][j] =
                      FMul(Link(self.g[k],
                                FAdd(dot(args.X[k][j][i], self.beta[k][j]),
                                     EffectOf(self, k, args.group_id[i])[j])),
                           args.offset[k][i][1])

\* a group id repeated non-contiguously, sorted by a permutation that is not
\* its own inverse, with rows that differ
C6_Witness ==
    /\ pc = "predicted"
    /\ args.group_id = <<1, 0, 1>>
    /\ loc.sort_id = <<1, 2, 0>>
    /\ loc.reverse_sort_id = <<2, 0, 1>>
    /\ self.unique_group_id = <<0, 1>>
    /\ ret[1][1][1][1] # ret[1][1][3][1]
    /\ ret[1][1][1][1] # ret[1][1][2][1]

(***************************************************************************)
(* SpecFit: update_params and compute_P called on a built model.           *)
(***************************************************************************)
MaxUpdates == 2

DArg(s, v) == [k \in 1..s.l |-> [i \in 1..s.n |-> [j \in 1..s.n |-> IF i = j THEN Fl(v + 1) ELSE Fl(0)]]]

PArg(s, v) == [k \in 1..s.l |-> [i \in 1..s.m |-> [j \in 1..s.n |-> Fl(v + 1)]]]

InitFit ==
    \E m \in 1..MaxM : \E gid \in {None} \cup {Some(g) : g \in NonDecreasing(m)} :
    \E cov \in {<<"rows", FALSE>>, <<"absent", TRUE>>} : \E link \in Links :
    \E off \in BOOLEAN :
        LET a == FitArgs(m, gid, cov[1], cov[2], off, link)
        IN  /\ init_checked(a).exc = ""
            /\ \E sort_id \in argsort(init_checked(a).fields[1].group_id) :
                  self = Built(a, sort_id)
            /\ caller_d = init_checked(a).d
            /\ status = "built"
            /\ exc = ""
            /\ args = None
            /\ pc = "built"
            /\ loc = [calls |-> 0]
            /\ LOG = << >>
            /\ ret = None

\* model.update_params(beta, U, D, P), each argument given or left None
UpdateParams ==
    /\ status = "built"
    /\ pc = "built"
    /\ loc.calls < MaxUpdates
    /\ \E beta \in {None} \cup {Some(BetaArg(self, b)) : b \in 0..MaxVal} :
       \E U \in {None} \cup {Some(UArg(self, u)) : u \in 0..MaxVal} :
       \E D \in {None} \cup {Some(DArg(self, v)) : v \in 1..MaxVal} :
       \E P \in {None} \cup {Some(PArg(self, v)) : v \in 1..MaxVal} :
          /\ self' = update_params(self, beta, U, D, P)
          /\ args' = [beta |-> beta, U |-> U, D |-> D, P |-> P]
    /\ loc' = [calls |-> loc.calls + 1]
    /\ ret' = None
    /\ exc' = ""
    /\ UNCHANGED <<status, pc, LOG, caller_d>>

\* P = model.compute_P(X=model.X, m=model.m, group_sizes=model.group_sizes,
\*                     offset=model.offset)
ComputeP ==
    /\ status = "built"
    /\ pc = "built"
    /\ ret = None
    /\ ret' = Some(compute_P(self, self.X, self.m, self.group_sizes, self.offset,
                             self.beta, self.U))
    /\ exc' = ""
    /\ UNCHANGED <<self, status, args, pc, loc, LOG, caller_d>>

NextFit == UpdateParams \/ ComputeP

SpecFit == InitFit /\ [][NextFit]_vars

allfinite3(P) == \A k \in 1..Len(P) : allfinite(P[k])

\* C10 as claimed: a parameter matrix with a non-finite entry is never
\* returned by compute_P nor stored in the model's P (the call that produced
\* it would have raised instead).
C10_FiniteP ==
    status = "built" =>
        /\ allfinite3(self.P)
        /\ ret # None => allfinite3(ret[1])

\* the Parameter Engine's result for the model's own data, beta and U
OwnP(s) == compute_P(s, s.X, s.m, s.group_sizes, s.offset, s.beta, s.U)

\* one call of update_params, from the model before it to the model after it,
\* with the arguments args' of the call
UpdatedAsSupplied ==
    /\ self'.beta = (IF args'.beta # None THEN args'.beta[1] ELSE self.beta)
    /\ self'.U = (IF args'.U # None THEN args'.U[1] ELSE self.U)
    /\ self'.D = (IF args'.D # None THEN args'.D[1] ELSE self.D)
    /\ self'.P = (IF args'.P # None THEN args'.P[1] ELSE OwnP(self'))
    /\ self' = [self EXCEPT !.beta = self'.beta, !.U = self'.U,
                            !.D = self'.D, !.P = self'.P]

\* C13: update_params replaces exactly the supplied ones of beta, U, D and
\* keeps the others; P becomes the supplied P, or else compute_P of the beta
\* and U as they stand after the replacement, so that after a call without P
\* the stored P is compute_P of the current beta and U.
C13_UpdateParams ==
    /\ [][loc'.calls = loc.calls + 1 => UpdatedAsSupplied]_vars
    /\ []((status = "built" /\ loc.calls > 0 /\ args.P = None) => self.P = OwnP(self))

\* two calls: the second supplied U alone, the beta of the first call is
\* still there and P has followed both
C13_Witness ==
    /\ loc.calls = 2
    /\ args.beta = None /\ args.D = None /\ args.P = None
    /\ args.U = Some(UArg(self, 1))
    /\ self.beta = BetaArg(self, 1)
    /\ self.U = UArg(self, 1)
    /\ self.num_groups > 1
    /\ self.P = OwnP(self)
    /\ \E k \in 1..self.l : \E i \in 1..self.m : \E j \in 1..self.n :
          self.P[k][i][j] # Fl(0)

(***************************************************************************)
(* SpecOpt: optimize_params, one step of its loop body per action.  LOG    *)
(* holds, in order, the sub-minimizations invoked and the lines logged:    *)
(* [what, iter, val], val the total error where one is logged and zero     *)
(* elsewhere.  The sub-minimizations (ccount.optimization) and               *)
(* utils.relative_error are not part of the sources: a block leaves any of *)
(* a few values in the model and its relative error is any float of        *)
(* RelErrors.                                                              *)
(***************************************************************************)
MaxIters == 2

MaxErr == 1

MaxTol == 1

RelErrors == {Fl(e) : e \in 0..MaxErr} \cup {NaN}

Event(what, iter, val) == [what |-> what, iter |-> iter, val |-> val]

InitOpt ==
    \E max_iters \in 0..MaxIters : \E optimize_beta, optimize_U, compute_D \in BOOLEAN :
    \E rel_tol \in {None} \cup {Some(Fl(t)) : t \in 0..MaxTol} :
        LET a == FitArgs(MaxM, None, "rows", FALSE, FALSE, "identity")
        IN  /\ self = Built(a, arange(MaxM))
            /\ caller_d = a.d
            /\ status = "built"
            /\ exc = ""
            /\ args = [max_iters |-> max_iters, optimize_beta |-> optimize_beta,
                       optimize_U |-> optimize_U, compute_D |-> compute_D,
                       rel_tol |-> rel_tol]
            /\ pc = "for"
            /\ loc = [i |-> 0, error |-> Fl(0), beta_error |-> Fl(0), U_error |-> Fl(0),
                      D_error |-> Fl(0), total_error |-> Fl(0), reported |-> None]
            /\ LOG = << >>
            /\ ret = None

\* for i in range(max_iters): error = 0
ForLoop ==
    /\ pc = "for"
    /\ IF loc.i < args.max_iters
       THEN /\ pc' = "beta"
            /\ loc' = [loc EXCEPT !.error = Fl(0)]
       ELSE /\ pc' = "done"
            /\ loc' = loc
    /\ UNCHANGED <<self, status, exc, args, LOG, ret, caller_d>>

\* if optimize_beta: ...
BetaBlock ==
    /\ pc = "beta"
    /\ IF args.optimize_beta
       THEN \E b \in 0..MaxVal : \E beta_error \in RelErrors :
               /\ self' = update_params(self, Some(BetaArg(self, b)), None, None, None)
               /\ loc' = [loc EXCEPT !.beta_error = beta_error,
                                     !.error = FAdd(@, beta_error)]
               /\ LOG' = Append(LOG, Event("optimize_beta", loc.i, Fl(0)))
       ELSE UNCHANGED <<self, loc, LOG>>
    /\ pc' = "U"
    /\ UNCHANGED <<status, exc, args, ret, caller_d>>

\* if optimize_U: ...
UBlock ==
    /\ pc = "U"
    /\ IF args.optimize_U
       THEN \E u \in 0..MaxVal : \E U_error \in RelErrors :
               /\ self' = update_params(self, None, Some(UArg(self, u)), None, None)
               /\ loc' = [loc EXCEPT !.U_error = U_error, !.error = FAdd(@, U_error)]
               /\ LOG' = Append(LOG, Event("optimize_U", loc.i, Fl(0)))
       ELSE UNCHANGED <<self, loc, LOG>>
    /\ pc' = "D"
    /\ UNCHANGED <<status, exc, args, ret, caller_d>>

\* if compute_D: ...
DBlock ==
    /\ pc = "D"
    /\ IF args.compute_D
       THEN \E v \in 0..MaxVal : \E D_error \in RelErrors :
               /\ self' = [self EXCEPT !.D = DArg(self, v)]
               /\ loc' = [loc EXCEPT !.D_error = D_error, !.error = FAdd(@, D_error)]
               /\ LOG' = Append(LOG, Event("compute_D", loc.i, Fl(0)))
       ELSE UNCHANGED <<self, loc, LOG>>
    /\ pc' = "total"
    /\ UNCHANGED <<status, exc, args, ret, caller_d>>

BoolInt(b) == IF b THEN 1 ELSE 0

\* the number of blocks in force: optimize_beta + optimize_U + compute_D
enabled_blocks(a) == BoolInt(a.optimize_beta) + BoolInt(a.optimize_U) + BoolInt(a.compute_D)

\* an average over all three blocks, whichever are enabled
total_error_over_three(error, a) == FDiv(error, Fl(3))

\* error / (optimize_beta + optimize_U + compute_D), for a non-zero divisor
total_error_of(error, a) == FDiv(error, Fl(enabled_blocks(a)))

\* total_error = error / (optimize_beta + optimize_U + compute_D): with no block
\* enabled error is the int 0 and the divisor the int 0, and Python raises
TotalError ==
    /\ pc = "total"
    /\ IF enabled_blocks(args) = 0
       THEN /\ pc' = "raised"
            /\ exc' = "ZeroDivisionError"
            /\ UNCHANGED <<loc, LOG>>
       ELSE /\ pc' = "tol"
            /\ exc' = exc
            /\ loc' = [loc EXCEPT !.total_error = total_error_of(loc.error, args)]
            /\ LOG' = Append(LOG, Event("total_error", loc.i, total_error_of(loc.error, args)))
    /\ UNCHANGED <<self, status, args, ret, caller_d>>

\* a convergence test that needs the error strictly below the tolerance
converged_strictly(rel_tol, total_error) ==
    rel_tol # None /\ FLeq(total_error, rel_tol[1]) /\ ~FLeq(rel_tol[1], total_error)

\* rel_tol is not None and total_error <= rel_tol
converged(rel_tol, total_error) == rel_tol # None /\ FLeq(total_error, rel_tol[1])

\* if rel_tol is not None: if total_error <= rel_tol: LOG.info(...); break
Tolerance ==
    /\ pc = "tol"
    /\ IF converged(args.rel_tol, loc.total_error)
       THEN /\ pc' = "done"
            /\ LOG' = Append(LOG, Event("converged", loc.i, Fl(0)))
       ELSE /\ pc' = "objective"
            /\ LOG' = LOG
    /\ UNCHANGED <<self, status, exc, args, loc, ret, caller_d>>

\* LOG.info("objective function value %8.2e" % self.neg_log_likelihood()): the
\* objective of the model's beta, U and D as they stand; then the next i
Objective ==
    /\ pc = "objective"
    /\ loc' = [loc EXCEPT !.i = @ + 1,
                          !.reported = Some([beta |-> self.beta, U |-> self.U, D |-> self.D])]
    /\ LOG' = Append(LOG, Event("objective", loc.i, Fl(0)))
    /\ pc' = "for"
    /\ UNCHANGED <<self, status, exc, args, ret, caller_d>>

NextOpt ==
    \/ ForLoop
    \/ BetaBlock
    \/ UBlock
    \/ DBlock
    \/ TotalError
    \/ Tolerance
    \/ Objective

SpecOpt == InitOpt /\ [][NextOpt]_vars

(***************************************************************************)
(* Properties of optimize_params (SpecOpt).                                *)
(***************************************************************************)
Blocks == {"optimize_beta", "optimize_U", "compute_D"}

BlockRank(what) ==
    CASE what = "optimize_beta" -> 1 [] what = "optimize_U" -> 2 [] what = "compute_D" -> 3

Enabled(what) ==
    CASE what = "optimize_beta" -> args.optimize_beta
      [] what = "optimize_U" -> args.optimize_U
      [] what = "compute_D" -> args.compute_D

Events(what, k) == {e \in 1..Len(LOG) : LOG[e].what = what /\ LOG[e].iter = k}

Finished == pc \in {"done", "raised"}

\* iteration k is past its three blocks
BlocksDone(k) ==
    k < loc.i \/ (k = loc.i /\ pc \in {"total", "tol", "objective", "done", "raised"})

\* C1 as claimed: at most max_iters iterations run, and exactly max_iters when
\* rel_tol is not configured; in every iteration the enabled blocks, and only
\* they, are invoked once each, in the order beta, U, D.
C1_IterationsAndOrder ==
    /\ \A e \in 1..Len(LOG) : LOG[e].iter < args.max_iters
    /\ \A e, h \in 1..Len(LOG) :
          (e < h /\ LOG[e].what \in Blocks /\ LOG[h].what \in Blocks) =>
              \/ LOG[e].iter < LOG[h].iter
              \/ LOG[e].iter = LOG[h].iter /\ BlockRank(LOG[e].what) < BlockRank(LOG[h].what)
    /\ \A k \in 0..(args.max_iters - 1) : \A what \in Blocks :
          BlocksDone(k) => Cardinality(Events(what, k)) = BoolInt(Enabled(what))
    /\ (Finished /\ args.rel_tol = None) =>
          /\ exc = ""
          /\ loc.i = args.max_iters
          /\ \A k \in 0..(args.max_iters - 1) : \A what \in Blocks : BlocksDone(k)

\* the sum the code accumulates, from the block errors it computed
SumOfEnabled ==
    FAdd(FAdd(FAdd(Fl(0), IF args.optimize_beta THEN loc.beta_error ELSE Fl(0)),
              IF args.optimize_U THEN loc.U_error ELSE Fl(0)),
         IF args.compute_D THEN loc.D_error ELSE Fl(0))

AtOrBelowTol(x) == args.rel_tol # None /\ FLeq(x, args.rel_tol[1])

\* C2: the iteration error is the sum of the enabled blocks' relative errors
\* over the number of enabled blocks; once it is at or below a configured
\* rel_tol the driver terminates and nothing is invoked after it; when it is
\* not, the driver goes on, and it stops before max_iters in no other case.
C2_ErrorAndTermination ==
    /\ pc = "tol" =>
          /\ FSame(loc.total_error, FDiv(SumOfEnabled, Fl(enabled_blocks(args))))
          /\ LOG[Len(LOG)] = Event("total_error", loc.i, loc.total_error)
    /\ \A e \in 1..Len(LOG) :
          LOG[e].what = "total_error" =>
              IF AtOrBelowTol(LOG[e].val)
              THEN \/ e = Len(LOG) /\ pc = "tol"
                   \/ /\ e + 1 = Len(LOG)
                      /\ LOG[e + 1] = Event("converged", LOG[e].iter, Fl(0))
                      /\ pc = "done"
              ELSE \/ e = Len(LOG) /\ pc \in {"tol", "objective"}
                   \/ /\ e < Len(LOG)
                      /\ LOG[e + 1] = Event("objective", LOG[e].iter, Fl(0))
                      /\ (e + 1 = Len(LOG) /\ pc = "done") => loc.i = args.max_iters
    /\ (pc = "done" /\ loc.i < args.max_iters) => AtOrBelowTol(loc.total_error)

\* two of the blocks enabled, an iteration with error 1/2 above rel_tol = 0
\* gone through, and the next one stopped at error 0
C2_Witness ==
    /\ pc = "done"
    /\ args.optimize_beta /\ args.optimize_U /\ ~args.compute_D
    /\ args.rel_tol = Some(Fl(0))
    /\ loc.i = 1
    /\ \E e \in 1..Len(LOG) :
          /\ LOG[e].what = "total_error" /\ LOG[e].iter = 0
          /\ FSame(LOG[e].val, FDiv(Fl(1), Fl(2)))
    /\ LOG[Len(LOG)] = Event("converged", 1, Fl(0))

\* C3 as claimed: with all three blocks disabled optimize_params completes
\* without error, leaves beta, U and D as they were and only reports the
\* objective, once per iteration.
C3_NoOpPass ==
    enabled_blocks(args) = 0 =>
        /\ pc # "raised"
        /\ exc = ""
        /\ \A e \in 1..Len(LOG) : LOG[e].what = "objective"
        /\ pc = "done" => Len(LOG) = args.max_iters

\* iteration k has ended, by reaching the end of the loop body or by the break
Ended(k) == k < loc.i \/ (k = loc.i /\ pc = "done" /\ k < args.max_iters)

\* C4 as claimed: after each iteration that ended, the one on which the driver
\* terminates early included, the objective has been reported once.
C4_ReportedEveryIteration ==
    \A k \in 0..(args.max_iters - 1) :
        Ended(k) => Cardinality(Events("objective", k)) = 1

\* C4 amended: the objective of the current beta, U, D is reported once at
\* the end of every iteration whose error is not at or below a configured
\* rel_tol, right after the error is known; the iteration on which the driver
\* terminates early reports none, nor does one that raised.
C4_ReportedUnlessConverged ==
    /\ \A k \in 0..(args.max_iters - 1) :
          IF \E e \in Events("total_error", k) : ~AtOrBelowTol(LOG[e].val)
          THEN /\ Cardinality(Events("objective", k)) = (IF k < loc.i THEN 1 ELSE 0)
               /\ Finished => k < loc.i
          ELSE Events("objective", k) = {}
    /\ \A e \in 1..Len(LOG) :
          LOG[e].what = "objective" =>
              e > 1 /\ LOG[e - 1].what = "total_error" /\ LOG[e - 1].iter = LOG[e].iter
    /\ (pc = "for" /\ loc.i > 0) =>
          loc.reported = Some([beta |-> self.beta, U |-> self.U, D |-> self.D])

\* all blocks enabled: the first iteration reported its objective, the second
\* met rel_tol exactly and the driver stopped without a report
C4_Witness ==
    /\ pc = "done"
    /\ args.optimize_beta /\ args.optimize_U /\ args.compute_D
    /\ args.rel_tol = Some(Fl(1))
    /\ loc.i = 1
    /\ FSame(loc.total_error, Fl(1))
    /\ Cardinality(Events("objective", 0)) = 1
    /\ Events("objective", 1) = {}
    /\ loc.reported # None

(***************************************************************************)
(* SpecPredict: predict and compute_new_P called, any number of times up   *)
(* to MaxCalls, on a fitted model of the base engine.  a is the record of  *)
(* predict's arguments X, m, group_id, offset (spline_specs is None); args *)
(* holds the caller's X, group_id and offset objects as they are after the *)
(* call, loc.passed what they were when passed.                            *)
(***************************************************************************)
\* a mean_outcome that hands P back
mean_outcome_of_P(P) == [exc |-> "", val |-> Some(P)]

\* the base engine's mean_outcome: it raises
mean_outcome(P) == [exc |-> "RuntimeError", val |-> None]

\* check_new_X(X, group_id): the sizes it asserts
check_new_X(s, X, group_id) ==
    /\ Len(X) = s.l
    /\ \A k \in 1..s.l : Len(X[k]) = s.n
    /\ \A k \in 1..s.l : \A j \in 1..s.n :
          shape(X[k][j]) = <<Len(group_id), s.d.val[k][j]>>

\* X[:, ci:] - X_mean[ci:] and the assignment back into X[:, ci:]: numpy
\* broadcasts a tail of one entry over the columns and refuses any other
\* tail whose length is not the number of columns
broadcasts(X, X_mean, ci, l, n) ==
    \A k \in 1..l : \A j \in 1..n :
        \/ Len(X_mean[k][j]) - ci = shape(X[k][j])[2] - ci
        \/ Len(X_mean[k][j]) - ci = 1

broadcast_to(v, ci, width) ==
    [c \in 1..width |->
        IF c <= ci THEN Fl(0) ELSE IF Len(v) - ci = 1 THEN v[ci + 1] ELSE v[c]]

\* predict(X, m, None, group_id, offset) on the model s, sort_id the
\* permutation np.argsort returns inside compute_new_P: the exception it
\* ends with, what it returns, and its locals as far as it got
predict(s, a, sort_id) ==
    LET iexc == intercept_X_exc(a.X, a.m, s.l, s.n)
        X == unwrap(intercept_X(a.X, a.m, s.l, s.n))
        X_mean == [k \in 1..s.l |-> [j \in 1..s.n |->
                      broadcast_to(s.X_mean[k][j], s.ci, shape(X[k][j])[2])]]
        X_std == [k \in 1..s.l |-> [j \in 1..s.n |->
                     broadcast_to(s.X_std[k][j], s.ci, shape(X[k][j])[2])]]
        normal_X_with_intercept == normalize_X(X, X_mean, X_std, s.ci, s.l, s.n)
        group_id == IF a.group_id = None THEN arange(a.m) ELSE a.group_id[1]
        offset == IF a.offset = None THEN [k \in 1..s.l |-> ones(a.m, 1)]
                  ELSE [k \in 1..Len(a.offset[1]) |->
                           IF a.offset[1][k] = None THEN ones(a.m, 1)
                           ELSE a.offset[1][k][1]]
        call == compute_new_P(s, normal_X_with_intercept, group_id, offset, sort_id)
        out == mean_outcome(call.P)
    IN  IF iexc # ""
        THEN [exc |-> iexc, ret |-> None, X |-> None, shape_ok |-> FALSE, call |-> None]
        ELSE IF ~broadcasts(X, s.X_mean, s.ci, s.l, s.n)
        THEN [exc |-> "ValueError", ret |-> None, X |-> None, shape_ok |-> FALSE,
              call |-> None]
        ELSE IF ~check_new_X(s, normal_X_with_intercept, group_id)
        THEN [exc |-> "AssertionError", ret |-> None, X |-> Some(normal_X_with_intercept),
              shape_ok |-> FALSE, call |-> None]
        ELSE [exc |-> out.exc, ret |-> out.val, X |-> Some(normal_X_with_intercept),
              shape_ok |-> TRUE, call |-> Some(call)]

\* a prediction that keeps the gathered random effects in the model
model_with_gathered_U(s, call) ==
    IF call = None THEN s ELSE [s EXCEPT !.U = call[1].U]

\* the model after predict or compute_new_P, call the locals of compute_new_P
\* when it ran: neither method assigns an attribute of self, and np.append,
\* fancy indexing and P + U all make new arrays
model_after(s, call) == s

\* the caller's X, group_id and offset after the call: group_id.copy(),
\* deepcopy(offset) and the deepcopy in intercept_X, normalize_X and sort_X
\* keep every in-place assignment away from the objects passed in
args_after(a, call) == [X |-> a.X, group_id |-> a.group_id, offset |-> a.offset]

MaxCalls == 2

MaxRows == 2

NewXPatterns == {"absent", "fit_cols", "raw_cols"}

\* new covariates of r rows for the model s: none at all, matrices with the
\* fit-time column counts d[k][j], or with the columns the caller had at fit
\* time before any intercept was put in front
NewRawX(s, r, xp) ==
    [k \in 1..s.l |-> [j \in 1..s.n |->
        IF xp = "absent" THEN None
        ELSE Some([i \in 1..r |->
                [c \in 1..(s.d.val[k][j] - (IF xp = "raw_cols" THEN s.ci ELSE 0)) |->
                    Fl(i + c)]])]]

PredictArgs(s) ==
    {[X |-> NewRawX(s, r, xp), m |-> r, group_id |-> gid,
      offset |-> IF off THEN Some([k \in 1..s.l |-> Some(NewOffset(s, r)[k])]) ELSE None] :
        r \in 1..MaxRows, xp \in NewXPatterns, off \in BOOLEAN,
        gid \in {None} \cup UNION {{Some(g) : g \in [1..r -> 0..MaxGid]} : r \in 1..MaxRows}}

InitPredict ==
    \E gid \in {None, Some([i \in 1..MaxM |-> IF i = 1 THEN 0 ELSE MaxGid])} :
    \E cov \in {<<"rows", FALSE>>, <<"rows", TRUE>>, <<"absent", TRUE>>} :
        LET a == FitArgs(MaxM, gid, cov[1], cov[2], FALSE, "identity")
            built == Built(a, arange(MaxM))
        IN  /\ self = update_params(built, Some(BetaArg(built, 1)), Some(UArg(built, 1)),
                                    None, None)
            /\ caller_d = init_checked(a).d
            /\ status = "built"
            /\ exc = ""
            /\ args = None
            /\ pc = "fitted"
            /\ loc = [calls |-> 0, method |-> "", passed |-> None, X |-> None,
                      shape_ok |-> FALSE, call |-> None]
            /\ LOG = << >>
            /\ ret = None

\* predictions = model.predict(X, m, None, group_id, offset)
Predict ==
    /\ status = "built"
    /\ loc.calls < MaxCalls
    /\ \E a \in PredictArgs(self) :
       \E sort_id \in argsort(IF a.group_id = None THEN arange(a.m) ELSE a.group_id[1]) :
          LET r == predict(self, a, sort_id)
          IN  /\ self' = model_after(self, r.call)
              /\ args' = args_after(a, r.call)
              /\ exc' = r.exc
              /\ ret' = r.ret
              /\ loc' = [calls |-> loc.calls + 1, method |-> "predict",
                         passed |-> Some(a), X |-> r.X, shape_ok |-> r.shape_ok,
                         call |-> IF r.call = None THEN None
                                  ELSE Some([r.call[1] EXCEPT !.P = None])]
    /\ UNCHANGED <<status, pc, LOG, caller_d>>

\* P = model.compute_new_P(X, group_id, offset) with well-formed new data
CallComputeNewP ==
    /\ status = "built"
    /\ loc.calls < MaxCalls
    /\ \E r \in 1..MaxRows : \E group_id \in [1..r -> 0..MaxGid] :
       \E sort_id \in argsort(group_id) :
          LET a == [X |-> NewX(self, r), group_id |-> group_id, offset |-> NewOffset(self, r)]
              call == compute_new_P(self, a.X, a.group_id, a.offset, sort_id)
          IN  /\ self' = model_after(self, Some(call))
              /\ args' = args_after(a, Some(call))
              /\ exc' = ""
              /\ ret' = Some(call.P)
              /\ loc' = [calls |-> loc.calls + 1, method |-> "compute_new_P",
                         passed |-> Some(a), X |-> None, shape_ok |-> TRUE,
                         call |-> Some([call EXCEPT !.P = None])]
    /\ UNCHANGED <<status, pc, LOG, caller_d>>

NextPredict == Predict \/ CallComputeNewP

SpecPredict == InitPredict /\ [][NextPredict]_vars

(***************************************************************************)
(* Properties of predict and compute_new_P (SpecPredict).                  *)
(***************************************************************************)
\* C11: predict on the base engine never returns predictions: it ends in an
\* error, and when the new data passes the shape check that error is the
\* RuntimeError of mean_outcome, raised after compute_new_P has run.
C11_PredictAlwaysRaises ==
    loc.method = "predict" =>
        /\ exc # ""
        /\ ret = None
        /\ loc.shape_ok => (exc = "RuntimeError" /\ loc.call # None)

\* a predict call with covariates and group ids, one of them not seen at fit
\* time, that got through the shape check and compute_new_P
C11_Witness ==
    /\ loc.method = "predict"
    /\ loc.shape_ok
    /\ exc = "RuntimeError"
    /\ loc.passed[1].group_id # None
    /\ loc.passed[1].X[1][1] # None
    /\ loc.passed[1].m = MaxRows
    /\ \E q \in 1..Len(loc.call[1].indices_u) : loc.call[1].indices_u[q] = self.num_groups

\* the fields prediction must leave alone
Fitted(s) ==
    [beta |-> s.beta, U |-> s.U, D |-> s.D, P |-> s.P,
     unique_group_id |-> s.unique_group_id, group_sizes |-> s.group_sizes]

Columns(X, k, j) == IF X[k][j] = None THEN 0 ELSE shape(X[k][j][1])[2]

\* C15 as claimed: predict puts the intercept column in front of the new
\* covariates only for a model built with intercept augmentation, and for a
\* model built without it new covariates with the fit-time column counts
\* d[k][j] pass the shape check.
C15_InterceptOnlyIfAugmented ==
    loc.method = "predict" =>
        LET a == loc.passed[1]
        IN  /\ loc.X # None =>
                  \A k \in 1..self.l : \A j \in 1..self.n :
                      a.X[k][j] # None =>
                          shape(loc.X[1][k][j])[2] =
                              Columns(a.X, k, j) + (IF self.add_intercepts THEN 1 ELSE 0)
            /\ (/\ ~self.add_intercepts
                /\ \A k \in 1..self.l : \A j \in 1..self.n :
                      a.X[k][j] # None /\ Columns(a.X, k, j) = self.d.val[k][j]
                /\ a.group_id # None => Len(a.group_id[1]) = a.m)
               => loc.shape_ok

====
